---- MODULE Spec2Model ----
(***************************************************************************)
(* Model of the campaign downloader (download_all_campaigns.py): the run   *)
(* of main() against a nondeterministic HTTP server, one action per GET    *)
(* and per straight-line block between two GETs; and of the flattener and  *)
(* aggregator (json_to_excel_campaigns.py), whose main() and               *)
(* normalize_list are specifications of their own (SpecExcel,              *)
(* SpecNormalize).                                                         *)
(*                                                                         *)
(* JSON values are tagged records: [t |-> "null"], [t |-> "int", v |-> n], *)
(* [t |-> "str", v |-> s], [t |-> "list", v |-> <<..>>] and                *)
(* [t |-> "dict", v |-> f] with f a function from the keys present.        *)
(* A URL or pointer string is the sequence of its tokens: a scheme token   *)
(* ("https:"), a host, path segments, and "/" where the string starts or   *)
(* ends with a slash.                                                      *)
(***************************************************************************)
EXTENDS Integers, Sequences, FiniteSets, TLC

\* Page size requested from the server (DEFAULT_PARAMS["limit"], 100 in the
\* source), scaled down so that full pages can be enumerated.
PageSize == 1
\* Number of HTTP GETs one run may issue before the model stops exploring.
MaxRequests == 7

VARIABLES
    pc,             \* position of main()
    EXPANDI_KEY,    \* credentials read from the environment
    EXPANDI_SECRET,
    envelope,       \* the response shape and pointer style this server uses
    served,         \* server: number of items handed out so far
    csrftoken,
    headers,        \* main: the headers built by build_base_headers
    accounts,       \* fetch_all_accounts: the list being accumulated
    next_url,       \* fetch_all_accounts: the pending next pointer
    i,              \* main: index of the account being processed (1-based)
    account_id,     \* main: id, name and linkedin of the current account
    account_label,
    url,            \* fetch_campaigns_for_account: locals
    page,
    all_campaigns,
    retry,          \* session_get_json: arguments of the pending recursive call
    all_rows,       \* main: rows accumulated so far
    out_file,       \* content of outputs/all_campaigns.json, <<>> if not written
    writes,         \* number of times the output file was written
    log,            \* history: every GET issued, with the response it received
    data,           \* extract_list_and_next taken on its own: its argument;
                    \* json_to_excel_campaigns main: the JSON it loaded
    extracted,      \* extract_list_and_next taken on its own: its result
    df,             \* json_to_excel_campaigns main: the frame of flattened rows
    summary,        \* <<the SUMMARY_BY_CAMPAIGN sheet>>, <<>> while not written
    tags,           \* normalize_list taken on its own: its argument
    normalized      \* normalize_list taken on its own: its result

vars == <<pc, EXPANDI_KEY, EXPANDI_SECRET, envelope, served, csrftoken, headers, accounts,
          next_url, i, account_id, account_label, url, page, all_campaigns,
          retry, all_rows, out_file, writes, log, data, extracted, df, summary,
          tags, normalized>>

---------------------------------------------------------------------------
(* JSON values and Python truthiness *)

None == [t |-> "null"]
JInt(n) == [t |-> "int", v |-> n]
JStr(s) == [t |-> "str", v |-> s]
JList(s) == [t |-> "list", v |-> s]
JDict(f) == [t |-> "dict", v |-> f]

\* bool(x)
Truthy(x) ==
    CASE x.t = "null" -> FALSE
      [] x.t = "int" -> x.v # 0
      [] x.t = "dict" -> DOMAIN x.v # {}
      [] OTHER -> x.v # <<>>

\* d.get(k)
Get(d, k) == IF k \in DOMAIN d.v THEN d.v[k] ELSE None

\* a or b
Or(a, b) == IF Truthy(a) THEN a ELSE b

Last(s) == s[Len(s)]
Front(s) == SubSeq(s, 1, Len(s) - 1)

RECURSIVE Concat(_)
Concat(ss) == IF ss = <<>> THEN <<>> ELSE Head(ss) \o Concat(Tail(ss))

RECURSIVE ToStr(_)
\* str(n) for a natural number
ToStr(n) ==
    IF n < 10
    THEN <<"0", "1", "2", "3", "4", "5", "6", "7", "8", "9">>[n + 1]
    ELSE ToStr(n \div 10) \o ToStr(n % 10)

\* str(x) of a JSON scalar, as a token sequence
Str(x) == IF x.t = "int" THEN <<ToStr(x.v)>> ELSE x.v

---------------------------------------------------------------------------
(* Fixed base + paths *)

BASE_URL == <<"https:", "api.liaufa.com", "api", "v1", "open-api", "v2">>
ACCOUNTS_PATH == <<"/", "li_accounts", "/">>
CAMPAIGNS_PATH_TEMPLATE(id) == <<"/", "li_accounts">> \o id \o <<"campaign_instances", "/">>
SWAGGER_URL == <<"https:", "api.liaufa.com", "open-swagger", "/">>
DEFAULT_PARAMS == <<1, PageSize>>        \* <<page, limit>>; <<>> is params=None
limit == DEFAULT_PARAMS[2]

\* Variant: every status below 400 passes.
is_2xx_below_400(code) == 200 <= code /\ code < 400

is_2xx(code) == 200 <= code /\ code < 300

RECURSIVE lstrip(_)
\* s.lstrip("/")
lstrip(s) == IF s # <<>> /\ Head(s) = "/" THEN lstrip(Tail(s)) ELSE s

\* s.startswith("http")
startswith_http(s) == s # <<>> /\ Head(s) \in {"http:", "https:"}

\* urllib.parse.urljoin(base, rel) for a base with a scheme and a host: a
\* reference with a scheme stands alone, one that starts with "/" replaces
\* the path, any other replaces what follows the last slash of the base.
urljoin(base, rel) ==
    IF rel = <<>> THEN base
    ELSE IF startswith_http(rel) THEN rel
    ELSE IF Head(rel) = "/" THEN SubSeq(base, 1, 2) \o Tail(rel)
    ELSE Front(base) \o rel

---------------------------------------------------------------------------
(* Helpers *)

\* Variant: "data" is looked up before "items", "next_page" before "nextPage".
extract_list_and_next_reordered(d) ==
    IF d.t = "list" THEN <<d, None>>
    ELSE <<Or(Get(d, "results"), Or(Get(d, "data"), Or(Get(d, "items"), JList(<<>>)))),
           Or(Get(d, "next"), Or(Get(d, "next_page"), Get(d, "nextPage")))>>

\* extract_list_and_next(data): <<items, next_url>>
extract_list_and_next(d) ==
    IF d.t = "list" THEN <<d, None>>
    ELSE <<Or(Get(d, "results"), Or(Get(d, "items"), Or(Get(d, "data"), JList(<<>>)))),
           Or(Get(d, "next"), Or(Get(d, "nextPage"), Get(d, "next_page")))>>

RECURSIVE FirstNotNone(_, _)
\* the value of the first key of keys whose value in acc is not None
FirstNotNone(acc, keys) ==
    IF keys = <<>> THEN None
    ELSE IF Get(acc, Head(keys)) # None THEN Get(acc, Head(keys))
    ELSE FirstNotNone(acc, Tail(keys))

\* Variant: str() is taken of whatever the lookup gives, None included.
pick_account_id_str_of_none(acc) ==
    LET v == FirstNotNone(acc, <<"id", "pk", "_id", "uuid", "account_id", "li_account_id">>)
    IN  IF v = None THEN JStr(<<"None">>) ELSE JStr(Str(v))

\* pick_account_id(acc): str of the first id alias that is not None, or None
pick_account_id(acc) ==
    LET x == FirstNotNone(acc, <<"id", "pk", "_id", "uuid", "account_id", "li_account_id">>)
    IN  IF x = None THEN None ELSE JStr(Str(x))

\* pick_account_label(acc): <<name, linkedin>>
pick_account_label(acc) ==
    <<Or(Get(acc, "name"), Or(Get(acc, "fullName"), Or(Get(acc, "email"),
          Or(Get(acc, "username"), JStr(<<>>))))),
      Or(Get(acc, "linkedinUrl"), Or(Get(acc, "linkedin_url"),
          Or(Get(acc, "public_profile_url"), JStr(<<>>))))>>

\* build_base_headers(csrftoken): the headers sent with every API request
build_base_headers(token) ==
    [key |-> EXPANDI_KEY, secret |-> EXPANDI_SECRET, referer |-> SWAGGER_URL,
     csrf |-> token]

NoHeaders == [key |-> "", secret |-> "", referer |-> <<>>, csrf |-> None]

\* The request of one GET
Request(u, h, p) == [url |-> u, headers |-> h, params |-> p]

---------------------------------------------------------------------------
(* The server *)

Shapes == {"array", "absolute", "relative"}

\* The pointer a page may carry: its cursor names the request it answers.
Pointer ==
    IF envelope = "absolute"
    THEN BASE_URL \o <<"cursor", ToStr(Len(log) + 1)>>
    ELSE <<"/", "cursor", ToStr(Len(log) + 1)>>

\* A bare array carries no pointer.
Pointers == IF envelope = "array" THEN {None} ELSE {None, JStr(Pointer)}

\* Item counts of a page
PageSizes == 0..limit

\* The body of a page in this server's response shape
PageBody(items, ptr) ==
    IF envelope = "array" THEN JList(items)
    ELSE JDict([k \in {"count", "results", "next"} |->
                  CASE k = "count" -> JInt(Len(items))
                    [] k = "results" -> JList(items)
                    [] OTHER -> ptr])

\* The body of a response that is JSON but no page
MessageBody == JDict([k \in {"detail"} |-> JStr(<<"multiple choices">>)])

\* Which id alias the k-th account of this server carries: "id", "uuid", or
\* "none" (no alias with a value). One account in three carries none; it is
\* the third of each three on the server with absolute pointers and the
\* second on the others.
AliasOf(k) ==
    IF envelope = "absolute"
    THEN <<"id", "uuid", "none">>[((k - 1) % 3) + 1]
    ELSE <<"id", "none", "uuid">>[((k - 1) % 3) + 1]

\* The k-th object the server hands out, as an account
Account(k) ==
    CASE AliasOf(k) = "id" ->
            JDict([f \in {"id", "name"} |->
                     IF f = "id" THEN JInt(k) ELSE JStr(<<"acct", ToStr(k)>>)])
      [] AliasOf(k) = "none" ->
            JDict([f \in {"id", "email"} |->
                     IF f = "id" THEN None ELSE JStr(<<"mail", ToStr(k)>>)])
      [] OTHER ->
            JDict([f \in {"id", "uuid", "fullName", "linkedin_url"} |->
                     CASE f = "id" -> None
                       [] f = "uuid" -> JInt(k)
                       [] f = "fullName" -> JStr(<<"full", ToStr(k)>>)
                       [] OTHER -> JStr(<<"https:", "linkedin.com", ToStr(k)>>)])

\* n fresh campaign objects, n fresh accounts
FreshCampaigns(n) == [k \in 1..n |-> served + k]
FreshAccounts(n) == [k \in 1..n |-> Account(served + k)]

\* What the server may answer to a paginated GET of the account listing
\* (kind "accounts") or of the campaigns of an account: a page (200), a rate limit (429), a server error (500), a 3xx
\* that is not a redirect and carries a JSON message (300), or no response at
\* all (status 0: session.get raises a requests.RequestException).
Responses(kind) ==
    {[status |-> s, body |-> "none", items |-> <<>>, next |-> None] : s \in {0, 429, 500}}
    \cup {[status |-> 300, body |-> "message", items |-> <<>>, next |-> None]}
    \cup {[status |-> 200, body |-> "page",
            items |-> IF kind = "accounts" THEN FreshAccounts(n) ELSE FreshCampaigns(n),
            next |-> p] :
            n \in PageSizes, p \in Pointers}

NotJson == [t |-> "notjson"]

Body(r) ==
    CASE r.body = "page" -> PageBody(r.items, r.next)
      [] r.body = "message" -> MessageBody
      [] OTHER -> NotJson

\* One entry of the history: the request, the status of the response, whether
\* the response was parsed as a page, and the items and pointer the server
\* put into it.
Entry(kind, acct, req, r, parsed) ==
    [kind |-> kind, acct |-> acct, req |-> req, status |-> r.status,
     parsed |-> parsed, items |-> r.items, next |-> r.next]

---------------------------------------------------------------------------
(* HTTP wrappers *)

\* Variant: the wrapper gives up when the recursive call is answered 429 too.
session_get_json_one_retry(r) ==
    IF r.status = 0 THEN "raise"
    ELSE IF r.status = 429 THEN (IF retry # <<>> THEN "raise" ELSE "retry")
    ELSE IF r.status >= 400 THEN "raise"
    ELSE IF Body(r) = NotJson THEN "raise"
    ELSE "json"

\* session_get_json: what the wrapper does with the response r of its GET:
\* "retry" (sleep, then the recursive call), "raise", or "json" (return r.json()).
session_get_json(r) ==
    IF r.status = 0 THEN "raise"
    ELSE IF r.status = 429 THEN "retry"
    ELSE IF r.status >= 400 THEN "raise"
    ELSE IF Body(r) = NotJson THEN "raise"
    ELSE "json"

\* Variant: the recursive call drops the query parameters.
RetryCallNoParams(req) == Request(req.url, req.headers, <<>>)

\* The arguments session_get_json passes to its recursive call
RetryCall(req) == Request(req.url, req.headers, req.params)

\* The request the wrapper sends: that of the pending recursive call if there
\* is one, else the one its caller built.
Sent(built) == IF retry # <<>> THEN retry[1] ELSE built

---------------------------------------------------------------------------
(* fetch_all_accounts: the decision of its loop *)

\* Variant: a short page ends the listing even when it carries a pointer.
AccountsDoneOnShortPage(chunk, nxt) == ~Truthy(nxt) \/ Len(chunk) < limit

\* whether "while next_url" is left after this page
AccountsDone(chunk, nxt) == ~Truthy(nxt)

---------------------------------------------------------------------------
(* fetch_campaigns_for_account: the decisions of one loop iteration *)

\* Variant: without a pointer the URL goes back to the account's endpoint.
NextCampaignUrlReset(u, nxt) ==
    IF Truthy(nxt)
    THEN IF startswith_http(nxt.v) THEN nxt.v
         ELSE urljoin(BASE_URL \o <<"/">>, lstrip(nxt.v))
    ELSE urljoin(BASE_URL \o <<"/">>, lstrip(CAMPAIGNS_PATH_TEMPLATE(account_id.v)))

\* Variant: the pointer is ignored and the account's URL kept.
NextCampaignUrlKept(u, nxt) == u

\* the URL of the next iteration
NextCampaignUrl(u, nxt) ==
    IF Truthy(nxt)
    THEN IF startswith_http(nxt.v) THEN nxt.v
         ELSE urljoin(BASE_URL \o <<"/">>, lstrip(nxt.v))
    ELSE u

\* Variant: stop as soon as no pointer is present (the policy of the account lister).
CampaignsDonePointerOnly(campaigns, nxt) == ~Truthy(nxt)

\* Variant: stop as soon as a page is short, pointer or not.
CampaignsDoneCountOnly(campaigns, nxt) == Len(campaigns) < limit

\* whether the loop breaks after this page
CampaignsDone(campaigns, nxt) == ~Truthy(nxt) /\ Len(campaigns) < limit

\* Variant: the counter stands still while a pointer is followed.
NextPagePointerKeeps(p, campaigns, nxt) == IF Truthy(nxt) THEN p ELSE p + 1

\* the page counter of the next iteration
NextPage(p, campaigns, nxt) == IF Truthy(nxt) THEN p + 1 ELSE p + 1

\* Variant: the new page replaces what was accumulated.
ExtendReplaces(all, chunk) == chunk

\* list.extend
Extend(all, chunk) == all \o chunk

\* Variant: an account without campaigns gets a row of its own.
RowsWithPlaceholder(id, label, campaigns) ==
    IF campaigns = <<>>
    THEN <<[account_id |-> id.v, account_name |-> label[1].v,
            account_linkedin |-> label[2].v, campaign |-> None]>>
    ELSE [k \in 1..Len(campaigns) |->
            [account_id |-> id.v, account_name |-> label[1].v,
             account_linkedin |-> label[2].v, campaign |-> campaigns[k]]]

\* the rows main appends for the campaigns of one account
Rows(id, label, campaigns) ==
    [k \in 1..Len(campaigns) |->
        [account_id |-> id.v, account_name |-> label[1].v,
         account_linkedin |-> label[2].v, campaign |-> campaigns[k]]]

---------------------------------------------------------------------------
(* main *)

Init ==
    /\ pc = "csrf"
    /\ EXPANDI_KEY \in {"", "key"}
    /\ EXPANDI_SECRET \in {"", "secret"}
    /\ envelope \in Shapes
    /\ served = 0
    /\ csrftoken = None
    /\ headers = NoHeaders
    /\ accounts = <<>>
    /\ next_url = None
    /\ i = 1
    /\ account_id = None
    /\ account_label = <<JStr(<<>>), JStr(<<>>)>>
    /\ url = <<>>
    /\ page = 1
    /\ all_campaigns = <<>>
    /\ retry = <<>>
    /\ all_rows = <<>>
    /\ out_file = <<>>
    /\ writes = 0
    /\ log = <<>>
    /\ data = None
    /\ extracted = <<>>
    /\ df = <<>>
    /\ summary = <<>>
    /\ tags = None
    /\ normalized = <<>>

\* get_csrftoken: GET of the swagger page; the status is ignored, a
\* RequestException gives None, else the csrftoken cookie if the server set one.
GetCsrfToken ==
    /\ pc = "csrf"
    /\ Len(log) < MaxRequests
    /\ \E r \in {[status |-> 0, cookie |-> FALSE], [status |-> 200, cookie |-> TRUE]} :
          /\ log' = Append(log, [kind |-> "csrf", acct |-> 0,
                                 req |-> Request(SWAGGER_URL, NoHeaders, <<>>),
                                 status |-> r.status, parsed |-> FALSE,
                                 items |-> <<>>, next |-> None])
          /\ csrftoken' = IF r.cookie THEN JStr(<<"token">>) ELSE None
    /\ pc' = "headers"
    /\ UNCHANGED <<EXPANDI_KEY, EXPANDI_SECRET, envelope, served, headers, accounts,
                   next_url, i, account_id, account_label, url, page, all_campaigns,
                   retry, all_rows, out_file, writes, data, extracted, df,
                   summary, tags, normalized>>

\* build_base_headers: SystemExit when a credential is missing
BuildBaseHeaders ==
    /\ pc = "headers"
    /\ IF EXPANDI_KEY = "" \/ EXPANDI_SECRET = ""
       THEN pc' = "aborted" /\ headers' = headers
       ELSE pc' = "probe" /\ headers' = build_base_headers(csrftoken)
    /\ UNCHANGED <<EXPANDI_KEY, EXPANDI_SECRET, envelope, served, csrftoken, accounts,
                   next_url, i, account_id, account_label, url, page, all_campaigns,
                   retry, all_rows, out_file, writes, log, data, extracted, df,
                   summary, tags, normalized>>

\* test_li_accounts and the check of its result in main
TestLiAccounts ==
    /\ pc = "probe"
    /\ Len(log) < MaxRequests
    /\ \E s \in {0, 200, 304, 403, 429} :
          /\ log' = Append(log, [kind |-> "probe", acct |-> 0,
                                 req |-> Request(urljoin(BASE_URL \o <<"/">>, lstrip(ACCOUNTS_PATH)),
                                                 headers, DEFAULT_PARAMS),
                                 status |-> s, parsed |-> FALSE,
                                 items |-> <<>>, next |-> None])
          /\ pc' = IF s # 0 /\ is_2xx(s) THEN "accounts_first" ELSE "aborted"
    /\ UNCHANGED <<EXPANDI_KEY, EXPANDI_SECRET, envelope, served, csrftoken, headers,
                   accounts, next_url, i, account_id, account_label, url, page,
                   all_campaigns, retry, all_rows, out_file, writes, data, extracted, df,
                   summary, tags, normalized>>

\* fetch_all_accounts, the request before the loop
FetchAccountsFirst ==
    /\ pc = "accounts_first"
    /\ Len(log) < MaxRequests
    /\ LET req == Sent(Request(urljoin(BASE_URL \o <<"/">>, lstrip(ACCOUNTS_PATH)),
                               headers, DEFAULT_PARAMS))
       IN \E r \in Responses("accounts") :
            LET what == session_get_json(r)
                ex == extract_list_and_next(Body(r))
            IN  /\ log' = Append(log, Entry("accounts", 0, req, r, what = "json"))
                /\ served' = served + Len(r.items)
                /\ retry' = IF what = "retry" THEN <<RetryCall(req)>> ELSE <<>>
                /\ pc' = CASE what = "retry" -> pc
                           [] what = "raise" -> "aborted"
                           [] OTHER -> IF AccountsDone(ex[1].v, ex[2]) THEN "loop"
                                       ELSE "accounts_next"
                /\ accounts' = IF what = "json" THEN ex[1].v ELSE accounts
                /\ next_url' = IF what = "json" THEN ex[2] ELSE next_url
    /\ UNCHANGED <<EXPANDI_KEY, EXPANDI_SECRET, envelope, csrftoken, headers, i,
                   account_id, account_label, url, page, all_campaigns, all_rows,
                   out_file, writes, data, extracted, df,
                   summary, tags, normalized>>

\* fetch_all_accounts, one iteration of "while next_url"
FetchAccountsNext ==
    /\ pc = "accounts_next"
    /\ Len(log) < MaxRequests
    /\ LET next_full == IF startswith_http(next_url.v) THEN next_url.v
                        ELSE urljoin(BASE_URL \o <<"/">>, lstrip(next_url.v))
           req == Sent(Request(next_full, headers, <<>>))
       IN \E r \in Responses("accounts") :
            LET what == session_get_json(r)
                ex == extract_list_and_next(Body(r))
            IN  /\ log' = Append(log, Entry("accounts", 0, req, r, what = "json"))
                /\ served' = served + Len(r.items)
                /\ retry' = IF what = "retry" THEN <<RetryCall(req)>> ELSE <<>>
                /\ pc' = CASE what = "retry" -> pc
                           [] what = "raise" -> "aborted"
                           [] OTHER -> IF AccountsDone(ex[1].v, ex[2]) THEN "loop"
                                       ELSE "accounts_next"
                /\ accounts' = IF what = "json" THEN Extend(accounts, ex[1].v) ELSE accounts
                /\ next_url' = IF what = "json" THEN ex[2] ELSE next_url
    /\ UNCHANGED <<EXPANDI_KEY, EXPANDI_SECRET, envelope, csrftoken, headers, i,
                   account_id, account_label, url, page, all_campaigns, all_rows,
                   out_file, writes, data, extracted, df,
                   summary, tags, normalized>>

\* main, the head of "for i, acc in enumerate(accounts, 1)": the end of the
\* loop, an account without id (skipped), or the entry into
\* fetch_campaigns_for_account.
MainLoop ==
    /\ pc = "loop"
    /\ IF i > Len(accounts)
       THEN /\ pc' = "write"
            /\ UNCHANGED <<i, account_id, account_label, url, page, all_campaigns>>
       ELSE LET id == pick_account_id(accounts[i])
            IN  IF ~Truthy(id)
                THEN /\ i' = i + 1
                     /\ account_id' = id
                     /\ UNCHANGED <<pc, account_label, url, page, all_campaigns>>
                ELSE /\ pc' = "campaigns"
                     /\ account_id' = id
                     /\ account_label' = pick_account_label(accounts[i])
                     /\ url' = urljoin(BASE_URL \o <<"/">>,
                                       lstrip(CAMPAIGNS_PATH_TEMPLATE(id.v)))
                     /\ page' = 1
                     /\ all_campaigns' = <<>>
                     /\ i' = i
    /\ UNCHANGED <<EXPANDI_KEY, EXPANDI_SECRET, envelope, served, csrftoken, headers,
                   accounts, next_url, retry, all_rows, out_file, writes, log, data,
                   extracted, df,
                   summary, tags, normalized>>

\* fetch_campaigns_for_account, one iteration of "while True"; on break, the
\* return to main, which appends the account's rows and moves to the next
\* account.
FetchCampaignsPage ==
    /\ pc = "campaigns"
    /\ Len(log) < MaxRequests
    /\ LET req == Sent(Request(url, headers, <<page, limit>>))
       IN \E r \in Responses("campaigns") :
            LET what == session_get_json(r)
                ex == extract_list_and_next(Body(r))
                campaigns == ex[1].v
                total == Extend(all_campaigns, campaigns)
                done == CampaignsDone(campaigns, ex[2])
            IN  /\ log' = Append(log, Entry("campaigns", i, req, r, what = "json"))
                /\ served' = served + Len(r.items)
                /\ retry' = IF what = "retry" THEN <<RetryCall(req)>> ELSE <<>>
                /\ CASE what = "retry" ->
                          UNCHANGED <<pc, url, page, all_campaigns, all_rows, i>>
                     [] what = "raise" ->
                          /\ pc' = "aborted"
                          /\ UNCHANGED <<url, page, all_campaigns, all_rows, i>>
                     [] OTHER ->
                          /\ all_campaigns' = total
                          /\ url' = NextCampaignUrl(url, ex[2])
                          /\ page' = IF done THEN page ELSE NextPage(page, campaigns, ex[2])
                          /\ pc' = IF done THEN "loop" ELSE pc
                          /\ i' = IF done THEN i + 1 ELSE i
                          /\ all_rows' = IF done
                                         THEN all_rows \o Rows(account_id, account_label, total)
                                         ELSE all_rows
    /\ UNCHANGED <<EXPANDI_KEY, EXPANDI_SECRET, envelope, csrftoken, headers, accounts,
                   next_url, account_id, account_label, out_file, writes, data,
                   extracted, df,
                   summary, tags, normalized>>

\* Variant: the file is written as a checkpoint while accounts remain.
WriteOutputInLoop ==
    /\ pc = "loop"
    /\ out_file' = <<all_rows>>
    /\ writes' = writes + 1
    /\ pc' = "done"
    /\ UNCHANGED <<EXPANDI_KEY, EXPANDI_SECRET, envelope, served, csrftoken, headers,
                   accounts, next_url, i, account_id, account_label, url, page,
                   all_campaigns, retry, all_rows, log, data, extracted, df,
                   summary, tags, normalized>>

\* main, after the loop: the one write of outputs/all_campaigns.json
WriteOutput ==
    /\ pc = "write"
    /\ out_file' = <<all_rows>>
    /\ writes' = writes + 1
    /\ pc' = "done"
    /\ UNCHANGED <<EXPANDI_KEY, EXPANDI_SECRET, envelope, served, csrftoken, headers,
                   accounts, next_url, i, account_id, account_label, url, page,
                   all_campaigns, retry, all_rows, log, data, extracted, df,
                   summary, tags, normalized>>

Next ==
    \/ GetCsrfToken
    \/ BuildBaseHeaders
    \/ TestLiAccounts
    \/ FetchAccountsFirst
    \/ FetchAccountsNext
    \/ MainLoop
    \/ FetchCampaignsPage
    \/ WriteOutput

Spec == Init /\ [][Next]_vars

---------------------------------------------------------------------------
(* extract_list_and_next on its own: every response body over the six     *)
(* envelope keys, each absent, null, empty or filled, and two bare arrays. *)

ItemKeys == <<"results", "items", "data">>
NextKeys == <<"next", "nextPage", "next_page">>
EnvelopeKeys == {ItemKeys[k] : k \in 1..3} \cup {NextKeys[k] : k \in 1..3}

\* the value of key k in variant c
KeyValue(k, c) ==
    CASE c = "null" -> None
      [] c = "empty" -> IF k \in {ItemKeys[j] : j \in 1..3} THEN JList(<<>>) ELSE JStr(<<>>)
      [] OTHER -> IF k \in {ItemKeys[j] : j \in 1..3}
                  THEN JList(<<k>>) ELSE JStr(<<"/", k>>)

ExtractInputs ==
    {JList(<<>>), JList(<<"a", "b">>)}
    \cup {JDict([k \in {x \in EnvelopeKeys : f[x] # "absent"} |-> KeyValue(k, f[k])]) :
            f \in [EnvelopeKeys -> {"absent", "null", "empty", "filled"}]}

InitExtract ==
    /\ pc = "extract"
    /\ data \in ExtractInputs
    /\ extracted = <<>>
    /\ EXPANDI_KEY = "key"
    /\ EXPANDI_SECRET = "secret"
    /\ envelope = "array"
    /\ served = 0
    /\ csrftoken = None
    /\ headers = NoHeaders
    /\ accounts = <<>>
    /\ next_url = None
    /\ i = 1
    /\ account_id = None
    /\ account_label = <<JStr(<<>>), JStr(<<>>)>>
    /\ url = <<>>
    /\ page = 1
    /\ all_campaigns = <<>>
    /\ retry = <<>>
    /\ all_rows = <<>>
    /\ out_file = <<>>
    /\ writes = 0
    /\ log = <<>>
    /\ df = <<>>
    /\ summary = <<>>
    /\ tags = None
    /\ normalized = <<>>

ExtractListAndNext ==
    /\ pc = "extract"
    /\ extracted' = extract_list_and_next(data)
    /\ pc' = "extracted"
    /\ UNCHANGED <<EXPANDI_KEY, EXPANDI_SECRET, envelope, served, csrftoken, headers,
                   accounts, next_url, i, account_id, account_label, url, page,
                   all_campaigns, retry, all_rows, out_file, writes, log, data, df,
                   summary, tags, normalized>>

NextExtract == ExtractListAndNext

SpecExtract == InitExtract /\ [][NextExtract]_vars

---------------------------------------------------------------------------
(* json_to_excel_campaigns.py: the flattener and the aggregator.           *)
(* A string of a name, a tag or a cell is the sequence of its characters.  *)
(* A row of the frame is a function from column names to JSON values, None *)
(* standing for a missing cell; the summary sheet is the set of its        *)
(* records (the order of the records on the sheet is not modelled).        *)

STATS_KEYS ==
    <<"stopped", "finished", "in_queue", "connected", "initiated", "step_count",
      "maybe_people", "contacted_people", "latest_action_id", "interested_people",
      "people_in_campaign", "replied_first_action", "not_interested_people",
      "replied_other_actions">>

EmptyDict == JDict([k \in {} |-> None])

\* the characters str.strip() removes
Whitespace == {" "}

RECURSIVE str_strip(_)
\* s.strip()
str_strip(s) ==
    IF s = <<>> THEN s
    ELSE IF Head(s) \in Whitespace THEN str_strip(Tail(s))
    ELSE IF Last(s) \in Whitespace THEN str_strip(Front(s))
    ELSE s

RECURSIVE str_split(_, _)
\* s.split(sep) for a one-character separator
str_split(s, sep) ==
    IF \A k \in 1..Len(s) : s[k] # sep THEN <<s>>
    ELSE LET at == CHOOSE k \in 1..Len(s) : s[k] = sep /\ \A j \in 1..(k - 1) : s[j] # sep
         IN  <<SubSeq(s, 1, at - 1)>> \o str_split(SubSeq(s, at + 1, Len(s)), sep)

RECURSIVE str_join(_, _)
\* sep.join(parts)
str_join(sep, parts) ==
    IF parts = <<>> THEN <<>>
    ELSE IF Len(parts) = 1 THEN parts[1]
    ELSE parts[1] \o sep \o str_join(sep, Tail(parts))

RECURSIVE get_first(_, _)
\* get_first(d, keys): the value of the first key d holds with a value other
\* than None, None if there is none or d is no dict
get_first(d, keys) ==
    IF keys = <<>> \/ d.t # "dict" THEN None
    ELSE IF Get(d, Head(keys)) # None THEN Get(d, Head(keys))
    ELSE get_first(d, Tail(keys))

\* normalize_campaign_name(campaign)
normalize_campaign_name(campaign) ==
    LET inner == IF Get(campaign, "campaign").t = "dict"
                 THEN Get(campaign, "campaign") ELSE EmptyDict
    IN  Or(get_first(campaign, <<"name", "title", "campaign_name">>),
           Or(get_first(inner, <<"name", "title">>), JStr(<<>>)))

\* json.dumps(item) of a dict whose values are scalars, its keys in the
\* order name, label, title, id
json_dumps(item) ==
    LET keys == SelectSeq(<<"name", "label", "title", "id">>,
                          LAMBDA k : k \in DOMAIN item.v)
        text(v) == CASE v.t = "null" -> <<"n", "u", "l", "l">>
                     [] v.t = "int" -> <<ToStr(v.v)>>
                     [] OTHER -> <<"\"">> \o v.v \o <<"\"">>
    IN  <<"{">> \o str_join(<<",", " ">>,
                            [k \in 1..Len(keys) |->
                               <<"\"", keys[k], "\"", ":", " ">> \o text(item.v[keys[k]])])
        \o <<"}">>

\* normalize_list, the first loop: the text of one item
normalize_list_item(item) ==
    CASE item.t = "str" -> item.v
      [] item.t = "dict" ->
            Str(Or(Get(item, "name"), Or(Get(item, "label"), Or(Get(item, "title"),
                   Or(Get(item, "id"), JStr(json_dumps(item)))))))
      [] OTHER -> Str(item)

RECURSIVE normalize_list_dedup_keep_last(_, _)
\* Variant: of a repeated value the last occurrence is kept.
normalize_list_dedup_keep_last(out, seen) ==
    IF out = <<>> THEN <<>>
    ELSE LET v == Last(out)
         IN  IF v \notin seen /\ v # <<>>
             THEN Append(normalize_list_dedup_keep_last(Front(out), seen \cup {v}), v)
             ELSE normalize_list_dedup_keep_last(Front(out), seen)

RECURSIVE normalize_list_dedup(_, _)
\* normalize_list, the second loop: out without repeated and without empty values
normalize_list_dedup(out, seen) ==
    IF out = <<>> THEN <<>>
    ELSE LET v == Head(out)
         IN  IF v \notin seen /\ v # <<>>
             THEN <<v>> \o normalize_list_dedup(Tail(out), seen \cup {v})
             ELSE normalize_list_dedup(Tail(out), seen)

\* normalize_list(x), as the characters of the string it returns
normalize_list(v) ==
    IF v = None THEN <<>>
    ELSE IF v.t # "list" THEN Str(v)
    ELSE IF Len(v.v) = 0 THEN <<>>
    ELSE str_join(<<",", " ">>,
                  normalize_list_dedup([k \in 1..Len(v.v) |-> normalize_list_item(v.v[k])], {}))

\* the columns of a flattened row
StatsColumns == {"stats_" \o STATS_KEYS[k] : k \in 1..Len(STATS_KEYS)}
Columns ==
    {"account_name", "account_id", "campaign_name", "campaign_instance_id", "status",
     "activated", "deactivated", "tags", "labels"} \cup StatsColumns

\* flatten_row(row)
flatten_row(row) ==
    LET c0 == Or(Get(row, "campaign"), EmptyDict)
        campaign == IF c0.t = "dict" THEN c0 ELSE EmptyDict
        s0 == Or(Get(campaign, "stats"), EmptyDict)
        stats == IF s0.t = "dict" THEN s0 ELSE EmptyDict
    IN  [c \in Columns |->
           CASE c = "account_name" -> Get(row, "account_name")
             [] c = "account_id" -> Get(row, "account_id")
             [] c = "campaign_name" -> normalize_campaign_name(campaign)
             [] c = "campaign_instance_id" ->
                   get_first(campaign, <<"id", "_id", "pk", "uuid", "campaign_instance_id">>)
             [] c = "status" -> get_first(campaign, <<"status", "state">>)
             [] c = "activated" ->
                   get_first(campaign, <<"activated", "activated_at", "activatedAt">>)
             [] c = "deactivated" ->
                   get_first(campaign, <<"deactivated", "deactivated_at", "deactivatedAt">>)
             [] c = "tags" -> JStr(normalize_list(Get(campaign, "tags")))
             [] c = "labels" -> JStr(normalize_list(Get(campaign, "labels")))
             [] OTHER ->
                   Get(stats, STATS_KEYS[CHOOSE k \in 1..Len(STATS_KEYS) :
                                            c = "stats_" \o STATS_KEYS[k]])]

\* df["campaign_name"].fillna("").astype(str), one cell
fillna_astype_str(v) == IF v = None THEN JStr(<<>>) ELSE JStr(Str(v))

\* Variant: only the empty name is dropped, a blank one is kept.
RetainedUnlessEmpty(r) == r["campaign_name"].v # <<>>

\* the mask of the filter: df["campaign_name"].str.strip() != ""
Retained(r) == str_strip(r["campaign_name"].v) # <<>>

\* Variant: every numeric column is summed.
agg_dict_sum_only(c) ==
    CASE c \in StatsColumns -> "sum"
      [] c = "activated" -> "min"
      [] c = "deactivated" -> "max"
      [] OTHER -> "join_unique"

\* agg_dict: how the summary aggregates column c
agg_dict(c) ==
    CASE c \in {"stats_latest_action_id", "stats_step_count"} -> "max"
      [] c \in StatsColumns -> "sum"
      [] c = "activated" -> "min"
      [] c = "deactivated" -> "max"
      [] OTHER -> "join_unique"

AggColumns == StatsColumns \cup {"activated", "deactivated", "tags", "labels"}

RECURSIVE agg_sum(_)
\* "sum" of pandas: missing cells are skipped, the sum of none is 0
agg_sum(vals) ==
    IF vals = <<>> THEN 0
    ELSE (IF Head(vals) = None THEN 0 ELSE Head(vals).v) + agg_sum(Tail(vals))

RECURSIVE agg_max(_)
\* "max" of pandas: missing cells are skipped, the max of none is missing
agg_max(vals) ==
    IF vals = <<>> THEN None
    ELSE LET rest == agg_max(Tail(vals))
         IN  IF Head(vals) = None THEN rest
             ELSE IF rest = None \/ Head(vals).v >= rest.v THEN Head(vals) ELSE rest

RECURSIVE agg_min(_)
\* "min" of pandas
agg_min(vals) ==
    IF vals = <<>> THEN None
    ELSE LET rest == agg_min(Tail(vals))
         IN  IF Head(vals) = None THEN rest
             ELSE IF rest = None \/ Head(vals).v <= rest.v THEN Head(vals) ELSE rest

RECURSIVE join_unique_dedup(_, _)
join_unique_dedup(vals, seen) ==
    IF vals = <<>> THEN <<>>
    ELSE IF Head(vals) \notin seen
         THEN <<Head(vals)>> \o join_unique_dedup(Tail(vals), seen \cup {Head(vals)})
         ELSE join_unique_dedup(Tail(vals), seen)

\* join_unique(series): the parts of the cells, split at commas and
\* stripped, without the empty ones and without repetition
join_unique(series) ==
    LET cells == [k \in 1..Len(series) |-> fillna_astype_str(series[k]).v]
        parts(cell) == SelectSeq([k \in 1..Len(str_split(cell, ",")) |->
                                    str_strip(str_split(cell, ",")[k])],
                                 LAMBDA p : p # <<>>)
    IN  str_join(<<",", " ">>,
                 join_unique_dedup(Concat([k \in 1..Len(cells) |-> parts(cells[k])]), {}))

\* the row of the summary for the group g = <<account_name, campaign_name>>
Aggregate(g) ==
    LET rows == SelectSeq(df, LAMBDA r : <<r["account_name"], r["campaign_name"]>> = g)
        col(c) == [k \in 1..Len(rows) |-> rows[k][c]]
    IN  [c \in {"account_name", "campaign_name"} \cup AggColumns |->
           CASE c = "account_name" -> g[1]
             [] c = "campaign_name" -> g[2]
             [] agg_dict(c) = "sum" -> JInt(agg_sum(col(c)))
             [] agg_dict(c) = "max" -> agg_max(col(c))
             [] agg_dict(c) = "min" -> agg_min(col(c))
             [] OTHER -> JStr(join_unique(col(c)))]

\* df.groupby(["account_name", "campaign_name"], dropna=False).agg(agg_dict)
GroupBy ==
    {Aggregate(g) : g \in {<<df[k]["account_name"], df[k]["campaign_name"]>> : k \in 1..Len(df)}}

\* Number of rows of the JSON file that are enumerated
MaxRows == 2

\* The campaign objects of the enumerated rows
CampaignInputs ==
    { JDict("name" :> JStr(<<"F">>) @@ "id" :> JInt(1) @@ "status" :> JStr(<<"o", "n">>)
            @@ "activated" :> JInt(2) @@ "deactivated" :> JInt(5)
            @@ "tags" :> JList(<<JStr(<<"a">>), JStr(<<"b">>)>>)
            @@ "labels" :> JList(<<JDict("name" :> JStr(<<"x">>))>>)
            @@ "stats" :> JDict("connected" :> JInt(3) @@ "step_count" :> JInt(4)
                                @@ "latest_action_id" :> JInt(1))),
      JDict("name" :> JStr(<<"F">>) @@ "_id" :> JInt(2) @@ "state" :> JStr(<<"o", "f", "f">>)
            @@ "activated_at" :> JInt(1)
            @@ "tags" :> JList(<<JStr(<<"b">>), JStr(<<"c">>)>>)
            @@ "stats" :> JDict("connected" :> JInt(5) @@ "step_count" :> JInt(7)
                                @@ "stopped" :> JInt(1))),
      JDict("name" :> JStr(<<" ">>) @@ "id" :> JInt(3)
            @@ "stats" :> JDict("connected" :> JInt(1))),
      JDict("name" :> None @@ "title" :> JStr(<<"F">>) @@ "id" :> JInt(4)
            @@ "stats" :> JDict("connected" :> JInt(2) @@ "step_count" :> None)),
      JDict("id" :> JInt(5) @@ "stats" :> JDict("connected" :> JInt(1))),
      JDict("name" :> JStr(<<>>) @@ "title" :> JStr(<<"T">>) @@ "id" :> JInt(6)),
      JDict("campaign" :> JDict("name" :> JStr(<<"N">>)) @@ "id" :> JInt(7)
            @@ "stats" :> JList(<<>>)),
      JDict("name" :> JStr(<<" ", "F">>) @@ "id" :> JInt(8)
            @@ "stats" :> JDict("connected" :> JInt(4))),
      None,
      JDict("campaign_name" :> JInt(7) @@ "id" :> JInt(9)),
      JDict("name" :> JStr(<<"F">>) @@ "id" :> JInt(10)) }

\* The rows of the file: every campaign for account A, two for account B
RowInputs ==
    {JDict("account_id" :> JStr(<<"1">>) @@ "account_name" :> JStr(<<"A">>)
           @@ "campaign" :> c) : c \in CampaignInputs}
    \cup {JDict("account_id" :> JStr(<<"2">>) @@ "account_name" :> JStr(<<"B">>)
                @@ "campaign" :> c) :
            c \in {d \in CampaignInputs :
                    d # None /\ Get(d, "name") = JStr(<<"F">>) /\ Get(d, "stats") # None}}

InitExcel ==
    /\ pc = "xl_flatten"
    /\ data \in {EmptyDict} \cup {JList(s) : s \in UNION {[1..n -> RowInputs] : n \in 0..MaxRows}}
    /\ df = <<>>
    /\ summary = <<>>
    /\ tags = None
    /\ normalized = <<>>
    /\ extracted = <<>>
    /\ EXPANDI_KEY = "key"
    /\ EXPANDI_SECRET = "secret"
    /\ envelope = "array"
    /\ served = 0
    /\ csrftoken = None
    /\ headers = NoHeaders
    /\ accounts = <<>>
    /\ next_url = None
    /\ i = 1
    /\ account_id = None
    /\ account_label = <<JStr(<<>>), JStr(<<>>)>>
    /\ url = <<>>
    /\ page = 1
    /\ all_campaigns = <<>>
    /\ retry = <<>>
    /\ all_rows = <<>>
    /\ out_file = <<>>
    /\ writes = 0
    /\ log = <<>>

\* main: SystemExit unless the JSON is a list, else the frame of the
\* flattened rows
FlattenRows ==
    /\ pc = "xl_flatten"
    /\ IF data.t # "list"
       THEN pc' = "xl_aborted" /\ df' = df
       ELSE /\ df' = [k \in 1..Len(data.v) |-> flatten_row(data.v[k])]
            /\ pc' = "xl_filter"
    /\ UNCHANGED <<EXPANDI_KEY, EXPANDI_SECRET, envelope, served, csrftoken, headers,
                   accounts, next_url, i, account_id, account_label, url, page,
                   all_campaigns, retry, all_rows, out_file, writes, log, data,
                   extracted, summary, tags, normalized>>

\* main: the rows without campaign name are dropped. A frame built from no
\* row has no column campaign_name: df["campaign_name"] raises KeyError.
DropUnnamed ==
    /\ pc = "xl_filter"
    /\ IF df = <<>>
       THEN pc' = "xl_aborted" /\ df' = df
       ELSE /\ df' = SelectSeq([k \in 1..Len(df) |->
                                  [df[k] EXCEPT !["campaign_name"] = fillna_astype_str(@)]],
                               Retained)
            /\ pc' = "xl_summarise"
    /\ UNCHANGED <<EXPANDI_KEY, EXPANDI_SECRET, envelope, served, csrftoken, headers,
                   accounts, next_url, i, account_id, account_label, url, page,
                   all_campaigns, retry, all_rows, out_file, writes, log, data,
                   extracted, summary, tags, normalized>>

\* main: the summary sheet, written only if a row is left
Summarise ==
    /\ pc = "xl_summarise"
    /\ summary' = IF Len(df) > 0 THEN <<GroupBy>> ELSE <<>>
    /\ pc' = "xl_done"
    /\ UNCHANGED <<EXPANDI_KEY, EXPANDI_SECRET, envelope, served, csrftoken, headers,
                   accounts, next_url, i, account_id, account_label, url, page,
                   all_campaigns, retry, all_rows, out_file, writes, log, data,
                   extracted, df, tags, normalized>>

NextExcel ==
    \/ FlattenRows
    \/ DropUnnamed
    \/ Summarise

SpecExcel == InitExcel /\ [][NextExcel]_vars

---------------------------------------------------------------------------
(* normalize_list on its own: applied to a value of a tags field, and then *)
(* once more to what it made of it.                                        *)

\* Number of items of an enumerated list
MaxItems == 3

\* The items of the enumerated lists
ItemInputs ==
    { JStr(<<"a">>), JStr(<<"b">>), JStr(<<>>), JStr(<<"a", ",", " ", "b">>),
      JDict("name" :> JStr(<<"a">>) @@ "id" :> JInt(7)),
      JDict("name" :> JStr(<<>>) @@ "label" :> JStr(<<"b">>)),
      JDict("id" :> JInt(7)),
      JDict("id" :> None),
      JInt(7) }

NormalizeInputs ==
    {None, JStr(<<"a", ",", " ", "a">>), JInt(7)}
    \cup {JList(s) : s \in UNION {[1..n -> ItemInputs] : n \in 0..MaxItems}}

InitNormalize ==
    /\ pc = "normalize"
    /\ tags \in NormalizeInputs
    /\ normalized = <<>>
    /\ data = None
    /\ extracted = <<>>
    /\ df = <<>>
    /\ summary = <<>>
    /\ EXPANDI_KEY = "key"
    /\ EXPANDI_SECRET = "secret"
    /\ envelope = "array"
    /\ served = 0
    /\ csrftoken = None
    /\ headers = NoHeaders
    /\ accounts = <<>>
    /\ next_url = None
    /\ i = 1
    /\ account_id = None
    /\ account_label = <<JStr(<<>>), JStr(<<>>)>>
    /\ url = <<>>
    /\ page = 1
    /\ all_campaigns = <<>>
    /\ retry = <<>>
    /\ all_rows = <<>>
    /\ out_file = <<>>
    /\ writes = 0
    /\ log = <<>>

NormalizeList ==
    /\ pc = "normalize"
    /\ normalized' = normalize_list(tags)
    /\ pc' = "normalized"
    /\ UNCHANGED <<EXPANDI_KEY, EXPANDI_SECRET, envelope, served, csrftoken, headers,
                   accounts, next_url, i, account_id, account_label, url, page,
                   all_campaigns, retry, all_rows, out_file, writes, log, data,
                   extracted, df, summary, tags>>

\* normalize_list applied again: to the string it returned, or to the list of
\* the values it kept
NormalizeAgain ==
    /\ pc = "normalized"
    /\ tags # None /\ tags.t = "list"
    /\ \E again \in
          {JStr(normalized),
           JList(LET kept == normalize_list_dedup(
                               [k \in 1..Len(tags.v) |-> normalize_list_item(tags.v[k])], {})
                 IN  [k \in 1..Len(kept) |-> JStr(kept[k])])} :
          /\ tags' = again
          /\ normalized' = normalize_list(again)
    /\ pc' = "renormalized"
    /\ UNCHANGED <<EXPANDI_KEY, EXPANDI_SECRET, envelope, served, csrftoken, headers,
                   accounts, next_url, i, account_id, account_label, url, page,
                   all_campaigns, retry, all_rows, out_file, writes, log, data,
                   extracted, df, summary>>

NextNormalize ==
    \/ NormalizeList
    \/ NormalizeAgain

SpecNormalize == InitNormalize /\ [][NextNormalize]_vars

---------------------------------------------------------------------------
(* Reading the history *)

\* the exchanges of the account listing, and of the campaign pagination of
\* the a-th account
AccountLog == SelectSeq(log, LAMBDA e : e.kind = "accounts")
CampaignLog(a) == SelectSeq(log, LAMBDA e : e.kind = "campaigns" /\ e.acct = a)

\* the items of the pages of ex that were parsed, in order
ItemsOf(ex) == Concat([k \in 1..Len(ex) |-> IF ex[k].parsed THEN ex[k].items ELSE <<>>])

NoDuplicates(s) == \A j, k \in 1..Len(s) : s[j] = s[k] => j = k

\* the server's page: full, short, with or without pointer
FullPage(e) == e.parsed /\ Len(e.items) = limit
ShortPage(e) == e.parsed /\ Len(e.items) < limit
HasPointer(e) == e.parsed /\ e.next # None

\* pages 1 and 2 full, page 3 full without pointer
ThreeFullPages(ex) ==
    /\ Len(ex) >= 3
    /\ \A k \in 1..3 : FullPage(ex[k])
    /\ ~HasPointer(ex[3])

\* a pointer as the URL it stands for
Resolved(p) ==
    IF Head(p) = "https:" THEN p
    ELSE BASE_URL \o SelectSeq(p, LAMBDA tok : tok # "/")

---------------------------------------------------------------------------
(* Claims *)

\* C1 as stated: after pages 1 and 2 full and page 3 full without pointer,
\* fetch_campaigns_for_account has issued exactly 3 requests and never issues
\* a 4th.
C1_ThreeRequestsOnly ==
    \A a \in 1..Len(accounts) :
        ThreeFullPages(CampaignLog(a)) => Len(CampaignLog(a)) <= 3

\* C1 amended: after pages 1 and 2 full and page 3 full without pointer the
\* paginator has not returned; it goes on to a 4th request, which asks for
\* page 4.
C1_FullPageContinues ==
    \A a \in 1..Len(accounts) :
        LET ex == CampaignLog(a)
        IN  ThreeFullPages(ex) =>
              /\ Len(ex) = 3 => pc = "campaigns" /\ i = a /\ page = 4 /\ retry = <<>>
              /\ Len(ex) >= 4 => ex[4].req.params = <<4, limit>>

C1_Witness ==
    \E a \in 1..Len(accounts) :
        ThreeFullPages(CampaignLog(a)) /\ Len(CampaignLog(a)) >= 4

\* C2: the campaign pagination of an account has returned after a parsed
\* response exactly when that response is short and carries no pointer; after
\* a full page or a page with a pointer it is still running.
C2_StopIffShortAndNoPointer ==
    \A a \in 1..Len(accounts) :
        LET ex == CampaignLog(a)
        IN  \A k \in 1..Len(ex) :
              ex[k].parsed =>
                ((ShortPage(ex[k]) /\ ~HasPointer(ex[k])) <=> (k = Len(ex) /\ i > a))

C2_Witness ==
    \E a \in 1..Len(accounts) :
        LET ex == CampaignLog(a)
        IN  /\ i > a
            /\ Len(ex) >= 3
            /\ FullPage(ex[1]) /\ ~HasPointer(ex[1])
            /\ ShortPage(ex[2]) /\ HasPointer(ex[2])

\* C3: the list a paginated fetch accumulates, and the one it returns, is
\* the concatenation of the items of the pages received, in order, without a
\* duplicate: accounts for fetch_all_accounts, all_campaigns (and the rows
\* main builds from the returned lists) for fetch_campaigns_for_account.
C3_Concatenation ==
    /\ accounts = ItemsOf(AccountLog)
    /\ NoDuplicates(accounts)
    /\ pc = "campaigns" => all_campaigns = ItemsOf(CampaignLog(i))
    /\ [k \in 1..Len(all_rows) |-> all_rows[k].campaign]
         = ItemsOf(SelectSeq(log, LAMBDA e : e.kind = "campaigns" /\ e.acct < i))
    /\ NoDuplicates([k \in 1..Len(all_rows) |-> all_rows[k].campaign])

C3_Witness ==
    /\ pc = "done"
    /\ Len(AccountLog) >= 2 /\ Len(accounts) >= 2
    /\ Len(CampaignLog(1)) >= 3 /\ Len(all_rows) >= 2

\* C4 as stated: every GET answered 429 is followed by the identical request
\* and the run does not end on it.
C4_EveryGetRetried ==
    \A k \in 1..Len(log) :
        log[k].status = 429 =>
            /\ k < Len(log) => log[k + 1].req = log[k].req
            /\ k = Len(log) => pc # "aborted" /\ retry = <<log[k].req>>

\* C4 amended: a GET of the account listing or of a campaign pagination that
\* is answered 429 leaves the pagination state as it was and is followed by
\* the identical request (URL, headers, parameters).
C4_PaginatedGetRetried ==
    [][/\ (/\ Len(log') = Len(log) + 1
           /\ Last(log').kind \in {"accounts", "campaigns"}
           /\ Last(log').status = 429)
          => /\ retry' = <<Last(log').req>>
             /\ UNCHANGED <<pc, accounts, next_url, i, url, page, all_campaigns, all_rows>>
       /\ (/\ Len(log') = Len(log) + 1
           /\ log # <<>>
           /\ Last(log).kind \in {"accounts", "campaigns"}
           /\ Last(log).status = 429)
          => /\ Last(log').req = Last(log).req
             /\ Last(log').kind = Last(log).kind]_vars

C4_Witness ==
    \E k \in 1..Len(log) - 1 :
        /\ log[k].kind = "campaigns" /\ log[k].status = 429
        /\ log[k].req.params = <<2, limit>>
        /\ log[k + 1].parsed

\* C5: a response to a paginated GET whose status is neither 2xx nor 429 is
\* not parsed as a page, is the last request of the run, and aborts the run.
C5_Non2xxAborts ==
    \A k \in 1..Len(log) :
        (/\ log[k].kind \in {"accounts", "campaigns"}
         /\ ~is_2xx(log[k].status)
         /\ log[k].status # 429)
        => ~log[k].parsed /\ k = Len(log) /\ pc = "aborted"

\* C6: in a run with a missing credential no HTTP request is ever issued.
C6_NoRequestWithoutCredentials ==
    (EXPANDI_KEY = "" \/ EXPANDI_SECRET = "") => log = <<>>

\* C7: the output file is written at most once, with all the rows, when the
\* campaign pagination of every account that has an id has completed; a run
\* that aborted has written nothing.
C7_WrittenOnceAtTheEnd ==
    /\ writes <= 1
    /\ writes = 0 <=> out_file = <<>>
    /\ writes = 1 =>
         /\ pc = "done"
         /\ out_file = <<all_rows>>
         /\ i > Len(accounts)
         /\ \A a \in 1..Len(accounts) :
              Truthy(pick_account_id(accounts[a])) =>
                /\ CampaignLog(a) # <<>>
                /\ ShortPage(Last(CampaignLog(a)))
                /\ ~HasPointer(Last(CampaignLog(a)))
    /\ pc = "aborted" => writes = 0

C7_Witness ==
    /\ writes = 1
    /\ Len(accounts) >= 2
    /\ Len(all_rows) >= 1

\* C8: the request that follows a campaign page with a pointer goes to that
\* pointer, as it is when absolute and appended to the base URL when
\* relative, and not to the URL of the account's first request.
C8_FollowsPointer ==
    \A a \in 1..Len(accounts) :
        LET ex == CampaignLog(a)
        IN  \A k \in 1..Len(ex) :
              HasPointer(ex[k]) =>
                /\ k < Len(ex) =>
                     /\ ex[k + 1].req.url = Resolved(ex[k].next.v)
                     /\ ex[k + 1].req.url # ex[1].req.url
                /\ (k = Len(ex) /\ i = a /\ pc = "campaigns") =>
                     url = Resolved(ex[k].next.v)

C8_Witness ==
    /\ envelope = "relative"
    /\ \E a \in 1..Len(accounts) :
         LET ex == CampaignLog(a)
         IN  /\ Len(ex) >= 3
             /\ HasPointer(ex[1]) /\ HasPointer(ex[2])
             /\ ex[3].req.url = BASE_URL \o <<"cursor", ToStr(Len(log) - 1)>>

\* C9 as stated: after a campaign page with a pointer the page counter is
\* not incremented, and the next request does not carry the incremented
\* counter.
C9_PointerPathKeepsCounter ==
    \A a \in 1..Len(accounts) :
        LET ex == CampaignLog(a)
        IN  \A k \in 1..Len(ex) :
              HasPointer(ex[k]) =>
                /\ k < Len(ex) => ex[k + 1].req.params # <<ex[k].req.params[1] + 1, limit>>
                /\ (k = Len(ex) /\ i = a /\ pc = "campaigns") => page = ex[k].req.params[1]

\* C9 amended: the page counter is one more than the number of pages parsed
\* so far, whether they carried a pointer or not, and every campaign request
\* carries that counter and the limit as its parameters.
C9_CounterCountsEveryPage ==
    \A a \in 1..Len(accounts) :
        LET ex == CampaignLog(a)
            parsed(k) == Cardinality({j \in 1..k : ex[j].parsed})
        IN  /\ \A k \in 1..Len(ex) : ex[k].req.params = <<1 + parsed(k - 1), limit>>
            /\ (i = a /\ pc = "campaigns") => page = 1 + parsed(Len(ex))

C9_Witness ==
    \E a \in 1..Len(accounts) :
        LET ex == CampaignLog(a)
        IN  /\ Len(ex) >= 3
            /\ HasPointer(ex[1])
            /\ FullPage(ex[2]) /\ ~HasPointer(ex[2])
            /\ ex[2].req.params = <<2, limit>>
            /\ ex[3].req.params = <<3, limit>>

RECURSIVE FirstPresent(_, _, _)
\* the value of the first key of keys that d holds with a value other than
\* null, be it empty
FirstPresent(d, keys, default) ==
    IF keys = <<>> THEN default
    ELSE IF Get(d, Head(keys)) # None THEN Get(d, Head(keys))
    ELSE FirstPresent(d, Tail(keys), default)

\* the value of keys[n] in d is truthy and that of no earlier key is
FirstTruthyAt(d, keys, n) ==
    /\ Truthy(Get(d, keys[n]))
    /\ \A j \in 1..(n - 1) : ~Truthy(Get(d, keys[j]))

\* C10 as stated: of an array, the array and no pointer; of an object, the
\* value of the first key present among results, items, data (an empty list
\* included) and the value of the first key present among next, nextPage,
\* next_page (two values that both mean "no pointer" count as the same).
C10_FirstPresentKey ==
    pc = "extracted" =>
        IF data.t = "list" THEN extracted = <<data, None>>
        ELSE /\ extracted[1] = FirstPresent(data, ItemKeys, JList(<<>>))
             /\ \/ extracted[2] = FirstPresent(data, NextKeys, None)
                \/ ~Truthy(extracted[2]) /\ ~Truthy(FirstPresent(data, NextKeys, None))

\* C10 amended: of an array, the array and no pointer; of an object, the
\* value of the first key among results, items, data whose value is truthy
\* (neither null nor empty), the empty list if there is none, and the value
\* of the first key among next, nextPage, next_page whose value is truthy, a
\* falsy value (no pointer to follow) if there is none.
C10_FirstTruthyKey ==
    pc = "extracted" =>
        IF data.t = "list" THEN extracted = <<data, None>>
        ELSE /\ \A n \in 1..3 :
                  FirstTruthyAt(data, ItemKeys, n) => extracted[1] = Get(data, ItemKeys[n])
             /\ (\A n \in 1..3 : ~Truthy(Get(data, ItemKeys[n]))) => extracted[1] = JList(<<>>)
             /\ \A n \in 1..3 :
                  FirstTruthyAt(data, NextKeys, n) => extracted[2] = Get(data, NextKeys[n])
             /\ (\A n \in 1..3 : ~Truthy(Get(data, NextKeys[n]))) => ~Truthy(extracted[2])

C10_Witness ==
    /\ pc = "extracted"
    /\ data.t = "dict"
    /\ DOMAIN data.v = EnvelopeKeys
    /\ data.v["results"] = JList(<<>>)
    /\ data.v["next"] = JStr(<<>>)
    /\ extracted = <<JList(<<"items">>), JStr(<<"/", "nextPage">>)>>

C12_FailedProbeAborts ==
    \A k \in 1..Len(log) :
        (log[k].kind = "probe" /\ ~(200 <= log[k].status /\ log[k].status < 300)) =>
            /\ k = Len(log)
            /\ pc = "aborted"
            /\ Cardinality({j \in 1..Len(log) : log[j].kind = "probe"}) = 1
            /\ \A j \in 1..Len(log) : log[j].kind \notin {"accounts", "campaigns"}
            /\ writes = 0 /\ out_file = <<>>

C12_Witness ==
    /\ pc = "aborted"
    /\ Len(log) = 2
    /\ log[2].kind = "probe" /\ log[2].status = 304

\* the id and the name an account object shows: the value of its id, or of
\* its uuid when the id is null, as text; its name, or its fullName
OwnerOf(acc) ==
    [account_id |-> IF Get(acc, "id") # None THEN <<ToStr(Get(acc, "id").v)>>
                    ELSE <<ToStr(Get(acc, "uuid").v)>>,
     account_name |-> IF Get(acc, "name") # None THEN Get(acc, "name").v
                      ELSE Get(acc, "fullName").v]

Flattened ==
    [k \in 1..Len(data.v) |->
        [flatten_row(data.v[k]) EXCEPT !["campaign_name"] = fillna_astype_str(@)]]

\* a string with a character that is no whitespace
NonBlank(s) == \E k \in 1..Len(s) : s[k] \notin Whitespace

\* C14: after the filter the frame holds, in their order, exactly the
\* flattened rows whose resolved campaign name has a character that is no
\* whitespace; a row whose name is blank, empty or resolved from no alias is
\* in neither the frame nor a group of the summary.
C14_RetainedIffNameNonBlank ==
    pc \in {"xl_summarise", "xl_done"} =>
        /\ df = SelectSeq(Flattened, LAMBDA r : NonBlank(r["campaign_name"].v))
        /\ summary # <<>> =>
             \A s \in summary[1] :
                /\ NonBlank(s["campaign_name"].v)
                /\ \E k \in 1..Len(Flattened) :
                      /\ Flattened[k]["campaign_name"] = s["campaign_name"]
                      /\ Flattened[k]["account_name"] = s["account_name"]

C14_Witness ==
    /\ pc = "xl_done"
    /\ Len(data.v) = 2
    /\ Flattened[1]["campaign_name"] = JStr(<<" ">>)
    /\ Flattened[2]["campaign_name"] = JStr(<<" ", "F">>)
    /\ Len(df) = 1
    /\ df[1]["campaign_instance_id"] = JInt(8)
    /\ Cardinality(summary[1]) = 1

\* the rows of the frame in the group of the summary record s
Members(s) ==
    {k \in 1..Len(df) : /\ df[k]["account_name"] = s["account_name"]
                        /\ df[k]["campaign_name"] = s["campaign_name"]}

RECURSIVE Total(_, _)
\* the sum of column c over the rows S of the frame, a missing cell as 0
Total(S, c) ==
    IF S = {} THEN 0
    ELSE LET k == CHOOSE j \in S : TRUE
         IN  (IF df[k][c] = None THEN 0 ELSE df[k][c].v) + Total(S \ {k}, c)

\* v is the largest cell of column c over the rows S, missing if all are
IsMax(v, S, c) ==
    IF \A k \in S : df[k][c] = None THEN v = None
    ELSE /\ \E k \in S : df[k][c] = v
         /\ v # None
         /\ \A k \in S : df[k][c] # None => df[k][c].v <= v.v

\* C15: the summary has exactly one record for every pair of account name
\* and campaign name that occurs among the retained rows and none for any
\* other; in it latest_action_id and step_count are the largest value of
\* the group and every other stats counter is the sum over the group
\* (missing cells left out). Without a retained row there is no summary.
C15_OneRecordPerGroup ==
    pc = "xl_done" =>
        IF summary = <<>> THEN df = <<>>
        ELSE /\ \A k \in 1..Len(df) :
                  Cardinality({s \in summary[1] : k \in Members(s)}) = 1
             /\ \A s \in summary[1] :
                  /\ Members(s) # {}
                  /\ \A c \in StatsColumns :
                       IF c \in {"stats_latest_action_id", "stats_step_count"}
                       THEN IsMax(s[c], Members(s), c)
                       ELSE s[c] = JInt(Total(Members(s), c))

C15_Witness ==
    /\ pc = "xl_done"
    /\ Len(df) = 2
    /\ df[1]["stats_connected"] = JInt(3) /\ df[2]["stats_connected"] = JInt(5)
    /\ df[1]["stats_step_count"] = JInt(4) /\ df[2]["stats_step_count"] = JInt(7)
    /\ summary # <<>>
    /\ \E s \in summary[1] :
          /\ Members(s) = {1, 2}
          /\ s["stats_connected"] = JInt(8)
          /\ s["stats_step_count"] = JInt(7)

\* the values of out that are not empty, each at its first occurrence
FirstOccurrences(out) ==
    LET first == SelectSeq([k \in 1..Len(out) |-> k],
                           LAMBDA k : out[k] # <<>> /\ \A j \in 1..(k - 1) : out[j] # out[k])
    IN  [n \in 1..Len(first) |-> out[first[n]]]

\* C16: normalize_list of a list returns the comma-joined sequence of the
\* non-empty texts of its items (a string as it is, an object as its first
\* truthy name, label, title or id), each text once, at the place of its
\* first occurrence; applied again, to the string returned or to the list
\* of the values kept, it returns the same string.
C16_DedupFirstSeenIdempotent ==
    [][/\ (pc' = "normalized" /\ tags'.t = "list") =>
             LET out == [k \in 1..Len(tags'.v) |-> normalize_list_item(tags'.v[k])]
             IN  /\ normalized' = str_join(<<",", " ">>, FirstOccurrences(out))
                 /\ NoDuplicates(FirstOccurrences(out))
                 /\ \A k \in 1..Len(out) :
                       out[k] # <<>> => \E n \in 1..Len(FirstOccurrences(out)) :
                                           FirstOccurrences(out)[n] = out[k]
       /\ (pc = "normalized" /\ pc' = "renormalized") => normalized' = normalized]_vars

C16_Witness ==
    /\ pc = "normalized"
    /\ tags = JList(<<JStr(<<"b">>), JDict("name" :> JStr(<<"a">>) @@ "id" :> JInt(7)),
                      JStr(<<"b">>)>>)
    /\ normalized = <<"b", ",", " ", "a">>

\* the GETs that go through session_get_json
Wrapped(e) == e.kind \in {"accounts", "campaigns"}

\* the number of 429 answers in a row that end with the k-th exchange
Streak(k) ==
    Cardinality({n \in 1..k : \A j \in (k - n + 1)..k : Wrapped(log[j]) /\ log[j].status = 429})

NoIdAlias(acc) ==
    \A key \in {"id", "pk", "_id", "uuid", "account_id", "li_account_id"} :
        Get(acc, key) = None

\* C18: no campaign request is ever issued and no row is ever emitted for an
\* account in which no id alias has a value, and when main comes to such an
\* account it moves on to the next one, without a request, without a row
\* and without ending the run.
C18_AccountWithoutIdSkipped ==
    [][/\ \A a \in 1..Len(accounts') :
             NoIdAlias(accounts'[a]) =>
                /\ \A k \in 1..Len(log') : ~(log'[k].kind = "campaigns" /\ log'[k].acct = a)
                /\ \A k \in 1..Len(all_rows') :
                      all_rows'[k].account_name # pick_account_label(accounts'[a])[1].v
                /\ ~(pc' = "campaigns" /\ i' = a)
       /\ (pc = "loop" /\ i <= Len(accounts) /\ NoIdAlias(accounts[i])) =>
             /\ pc' = "loop"
             /\ i' = i + 1
             /\ UNCHANGED <<log, all_rows, out_file, accounts>>]_vars

C18_Witness ==
    /\ Len(accounts) >= 3
    /\ NoIdAlias(accounts[2])
    /\ CampaignLog(1) # <<>>
    /\ CampaignLog(2) = <<>>
    /\ CampaignLog(3) # <<>>

\* the last of the first k exchanges of ex that carried a pointer, 0 if none
LastPointer(ex, k) ==
    IF \A j \in 1..k : ~HasPointer(ex[j]) THEN 0
    ELSE CHOOSE j \in 1..k : HasPointer(ex[j]) /\ \A m \in (j + 1)..k : ~HasPointer(ex[m])

\* C19: within the pagination of one account, once a page has carried a
\* pointer every later request, also the one that follows a full page
\* without pointer, goes to the URL of the pointer received last and not to
\* the account's campaign endpoint, and carries the page counter, one more
\* than the number of pages parsed, and the limit; so does the URL the
\* loop holds for its next request.
C19_UrlNeverReset ==
    \A a \in 1..Len(accounts) :
        LET ex == CampaignLog(a)
            target(k) == Resolved(ex[LastPointer(ex, k)].next.v)
        IN  /\ \A k \in 2..Len(ex) :
                  LastPointer(ex, k - 1) # 0 =>
                     /\ ex[k].req.url = target(k - 1)
                     /\ ex[k].req.url # ex[1].req.url
                     /\ ex[k].req.params
                          = <<1 + Cardinality({j \in 1..(k - 1) : ex[j].parsed}), limit>>
            /\ (pc = "campaigns" /\ i = a /\ LastPointer(ex, Len(ex)) # 0) =>
                  url = target(Len(ex))

C19_Witness ==
    \E a \in 1..Len(accounts) :
        LET ex == CampaignLog(a)
        IN  /\ Len(ex) >= 3
            /\ HasPointer(ex[1])
            /\ FullPage(ex[2]) /\ ~HasPointer(ex[2])
            /\ ex[3].req.url = Resolved(ex[1].next.v)
            /\ ex[3].req.url # ex[1].req.url
            /\ ex[3].req.params = <<3, limit>>
            /\ ex[3].parsed

====
